---- MODULE Spec2Model ----
(***************************************************************************)
(* A model of sambacc/config.py: the GlobalConfig store and its loader,    *)
(* the InstanceConfig / ShareConfig views and the UserEntry / GroupEntry   *)
(* identity records.                                                       *)
(*                                                                         *)
(* Representation of Python values:                                        *)
(*   dict accessed by key only  -> a function whose DOMAIN is the key set  *)
(*   dict that is iterated      -> a sequence of <<key, value>> pairs with *)
(*                                 distinct keys, in insertion order       *)
(*   list                       -> a sequence                              *)
(*   JSON scalar / None         -> a record [type, s, n]                   *)
(*   object                     -> a function from its attribute names     *)
(*   call that may raise        -> a record [status, out], status "ok" or  *)
(*                                 the exception class; for a generator    *)
(*                                 out is what was yielded before it ended *)
(***************************************************************************)
EXTENDS Integers, Sequences, FiniteSets, TLC

VARIABLES data, history, last

vars == <<data, history, last>>

(***************************** Python values ******************************)

None == [type |-> "NoneType", s |-> "", n |-> 0]

JStr(x) == [type |-> "str", s |-> x, n |-> 0]

JInt(v) == [type |-> "int", s |-> "", n |-> v]

\* bool(v) of a scalar: None, 0 and "" are falsy
Truthy(v) ==
    CASE v.type = "NoneType" -> FALSE
      [] v.type = "int" -> v.n # 0
      [] OTHER -> v.s # ""

\* isinstance(v, int)
isinstance_int(v) == v.type = "int"

\* d.get(k, default)
dict_get(d, k, default) == IF k \in DOMAIN d THEN d[k] ELSE default

\* d[k]: a KeyError when k is not a key of d
has_key(d, k) == k \in DOMAIN d

Ok(v) == [status |-> "ok", out |-> v]

Raise(exc, partial) == [status |-> exc, out |-> partial]

\* x in lst, for a list
InList(x, lst) == \E i \in 1..Len(lst) : lst[i] = x

\* The dict with no key
EmptyDict == [k \in {} |-> None]

(******************************* the loader *******************************)

VALID_VERSIONS == <<JStr("v0")>>

VERSION_KEY == "samba-container-config"

\* A faulty variant of dict_update: sections present on both sides are merged
\* entry by entry
dict_update_deep(d, other) ==
    [k \in DOMAIN d \cup DOMAIN other |->
        IF k \in DOMAIN other /\ k \in DOMAIN d /\ k # VERSION_KEY
            THEN [j \in DOMAIN d[k] \cup DOMAIN other[k] |->
                    IF j \in DOMAIN other[k] THEN other[k][j] ELSE d[k][j]]
        ELSE IF k \in DOMAIN other THEN other[k]
        ELSE d[k]]

\* self.data.update(data): every key of the document replaces or adds the
\* store's entry for that key, whole value at a time
dict_update(d, other) ==
    [k \in DOMAIN d \cup DOMAIN other |->
        IF k \in DOMAIN other THEN other[k] ELSE d[k]]

\* A faulty variant of version_check: any marker is accepted
version_check_lax(doc) ==
    LET version == dict_get(doc, VERSION_KEY, None)
    IN  IF version = None THEN "ValueError" ELSE "ok"

\* The version check of GlobalConfig.load: the exception it raises, or "ok"
version_check(doc) ==
    LET version == dict_get(doc, VERSION_KEY, None)
    IN  IF version = None THEN "ValueError"
        ELSE IF ~InList(version, VALID_VERSIONS) THEN "ValueError"
        ELSE "ok"

\* A faulty variant of load: the document is merged before it is checked
load_merge_first(d, doc) ==
    [data |-> dict_update(d, doc), status |-> version_check(doc)]

\* GlobalConfig.load on a store holding d: the store afterwards and the outcome
load(d, doc) ==
    IF version_check(doc) # "ok"
        THEN [data |-> d, status |-> version_check(doc)]
        ELSE [data |-> dict_update(d, doc), status |-> "ok"]

(**************************** GlobalConfig.get ****************************)

\* self.data["configs"][ident], wrapped in an InstanceConfig; the view keeps a
\* reference to the store, so the operators below take the store as d
get(d, ident) ==
    IF ~has_key(d, "configs") THEN Raise("KeyError", EmptyDict)
    ELSE IF ~has_key(d["configs"], ident) THEN Raise("KeyError", EmptyDict)
    ELSE Ok(d["configs"][ident])

(***************************** InstanceConfig *****************************)

\* The loop over gnames of global_options: what is yielded, and the KeyError
\* of self.gconfig.data["globals"][gname]
RECURSIVE section_loop(_, _, _)
section_loop(d, gnames, yielded) ==
    IF gnames = <<>> THEN Ok(yielded)
    ELSE IF ~has_key(d, "globals") THEN Raise("KeyError", yielded)
    ELSE IF ~has_key(d["globals"], Head(gnames)) THEN Raise("KeyError", yielded)
    ELSE section_loop(d, Tail(gnames),
            yielded \o dict_get(d["globals"][Head(gnames)], "options", <<>>))

\* A faulty variant of global_options: the per-instance pair is yielded before
\* the sections
global_options_name_first(d, iconfig) ==
    IF ~has_key(iconfig, "globals") THEN Raise("KeyError", <<>>)
    ELSE LET instance_name == dict_get(iconfig, "instance_name", None)
             first == IF Truthy(instance_name)
                        THEN << <<"netbios name", instance_name>> >> ELSE <<>>
         IN  section_loop(d, iconfig["globals"], first)

\* global_options(): every option of every referenced section in order, then
\* the per-instance "netbios name" when instance_name is truthy
global_options(d, iconfig) ==
    IF ~has_key(iconfig, "globals") THEN Raise("KeyError", <<>>)
    ELSE LET r == section_loop(d, iconfig["globals"], <<>>)
             instance_name == dict_get(iconfig, "instance_name", None)
         IN  IF r.status # "ok" THEN r
             ELSE IF Truthy(instance_name)
                 THEN Ok(Append(r.out, <<"netbios name", instance_name>>))
             ELSE r

uid_base == 1000

gid_base == 1000

\* ShareConfig(self.gconfig, sharename)
ShareConfig(sharename) == [name |-> sharename]

\* shares(): one ShareConfig per listed name, no lookup
shares(iconfig) ==
    LET snames == dict_get(iconfig, "shares", <<>>)
    IN  Ok([i \in 1..Len(snames) |-> ShareConfig(snames[i])])

(****************************** ShareConfig *******************************)

\* A faulty variant of share_options: a missing share has no options
share_options_lenient(d, share) ==
    Ok(dict_get(dict_get(dict_get(d, "shares", EmptyDict), share.name, EmptyDict),
                "options", <<>>))

\* share_options(): self.gconfig.data["shares"][self.name], then its options
share_options(d, share) ==
    IF ~has_key(d, "shares") THEN Raise("KeyError", <<>>)
    ELSE IF ~has_key(d["shares"], share.name) THEN Raise("KeyError", <<>>)
    ELSE Ok(dict_get(d["shares"][share.name], "options", <<>>))

(******************************* UserEntry ********************************)

\* A faulty variant of UserEntry: the ids are not validated in __init__
UserEntry_unchecked(urec, num) ==
    IF ~has_key(urec, "name") THEN Raise("KeyError", EmptyDict)
    ELSE Ok(("username" :> urec["name"]) @@ ("entry_num" :> num)
            @@ ("_uid" :> dict_get(urec, "uid", None))
            @@ ("_gid" :> dict_get(urec, "gid", None))
            @@ ("_nt_passwd" :> dict_get(urec, "nt_hash", JStr("")))
            @@ ("_plaintext_passwd" :> dict_get(urec, "password", JStr(""))))

\* UserEntry(iconf, urec, num): the object, or the exception of __init__
\* (str() of the two password fields is left out: nothing here reads them)
UserEntry(urec, num) ==
    IF ~has_key(urec, "name") THEN Raise("KeyError", EmptyDict)
    ELSE LET self == ("username" :> urec["name"]) @@ ("entry_num" :> num)
                     @@ ("_uid" :> dict_get(urec, "uid", None))
                     @@ ("_gid" :> dict_get(urec, "gid", None))
                     @@ ("_nt_passwd" :> dict_get(urec, "nt_hash", JStr("")))
                     @@ ("_plaintext_passwd" :> dict_get(urec, "password", JStr("")))
         IN  IF self["_uid"] # None /\ ~isinstance_int(self["_uid"])
                 THEN Raise("ValueError", EmptyDict)
             ELSE IF self["_gid"] # None /\ ~isinstance_int(self["_gid"])
                 THEN Raise("ValueError", EmptyDict)
             ELSE Ok(self)

\* A faulty variant of the uid property: an explicit 0 counts as set
UserEntry_uid_by_presence(self) ==
    IF self["_uid"] # None THEN self["_uid"].n
    ELSE uid_base + self["entry_num"]

\* The uid property
UserEntry_uid(self) ==
    IF Truthy(self["_uid"]) THEN self["_uid"].n
    ELSE uid_base + self["entry_num"]

\* The gid property
UserEntry_gid(self) ==
    IF Truthy(self["_gid"]) THEN self["_gid"].n
    ELSE gid_base + self["entry_num"]

(******************************* GroupEntry *******************************)

\* GroupEntry(iconf, grec, num): __init__ stores groupname and _gid and never
\* stores num
GroupEntry(grec, num) ==
    IF ~has_key(grec, "name") THEN Raise("KeyError", EmptyDict)
    ELSE LET self == ("groupname" :> grec["name"])
                     @@ ("_gid" :> dict_get(grec, "gid", None))
         IN  IF self["_gid"] # None /\ ~isinstance_int(self["_gid"])
                 THEN Raise("ValueError", EmptyDict)
             ELSE Ok(self)

\* The gid property: self.entry_num is an AttributeError on an object that
\* has no such attribute
GroupEntry_gid(self) ==
    IF Truthy(self["_gid"]) THEN Ok(self["_gid"].n)
    ELSE IF ~has_key(self, "entry_num") THEN Raise("AttributeError", 0)
    ELSE Ok(gid_base + self["entry_num"])

\* UserEntry.vgroup(): GroupEntry(self.iconfig, dict(name=..., gid=self.gid), 0)
vgroup(self) ==
    GroupEntry([name |-> self["username"], gid |-> JInt(UserEntry_gid(self))], 0)

(************************ InstanceConfig.users/groups *********************)

\* d.get(section, {}).get("all_entries", {}), as the list that is enumerated
all_entries(d, section) ==
    dict_get(dict_get(d, section, EmptyDict), "all_entries", <<>>)

\* The loop of users(): entry n (zero-based) onwards
RECURSIVE users_loop(_, _, _)
users_loop(all_users, n, yielded) ==
    IF n >= Len(all_users) THEN Ok(yielded)
    ELSE LET u == UserEntry(all_users[n + 1], n)
         IN  IF u.status # "ok" THEN Raise(u.status, yielded)
             ELSE users_loop(all_users, n + 1, Append(yielded, u.out))

users(d) == users_loop(all_entries(d, "users"), 0, <<>>)

\* dict operations on an insertion-ordered dict kept as <<key, value>> pairs
odict_has(od, k) == \E i \in 1..Len(od) : od[i][1] = k

odict_set(od, k, v) ==
    IF odict_has(od, k)
        THEN [i \in 1..Len(od) |-> IF od[i][1] = k THEN <<k, v>> ELSE od[i]]
        ELSE Append(od, <<k, v>>)

odict_del(od, k) == SelectSeq(od, LAMBDA p : p[1] # k)

\* A faulty variant of user_gids_of: the first user with a gid keeps it
RECURSIVE user_gids_first_wins(_, _)
user_gids_first_wins(us, od) ==
    IF us = <<>> THEN od
    ELSE user_gids_first_wins(Tail(us),
            IF odict_has(od, UserEntry_gid(Head(us))) THEN od
            ELSE odict_set(od, UserEntry_gid(Head(us)), Head(us)))

\* {u.gid: u for u in self.users()}
RECURSIVE user_gids_of(_, _)
user_gids_of(us, od) ==
    IF us = <<>> THEN od
    ELSE user_gids_of(Tail(us), odict_set(od, UserEntry_gid(Head(us)), Head(us)))

\* entry.gid() on a raw group record: the record is a dict, and a dict has no
\* attribute gid
DictAttributes == {"get", "items", "keys", "values", "update", "pop"}

raw_entry_gid_call(entry) ==
    IF "gid" \notin DictAttributes THEN Raise("AttributeError", 0)
    ELSE Ok(0)

\* The last loop of groups(): a virtual group per remaining user
RECURSIVE vgroups_loop(_, _)
vgroups_loop(remaining, yielded) ==
    IF remaining = <<>> THEN Ok(yielded)
    ELSE LET g == vgroup(Head(remaining)[2])
         IN  IF g.status # "ok" THEN Raise(g.status, yielded)
             ELSE vgroups_loop(Tail(remaining), Append(yielded, g.out))

\* The loop of groups() over the raw group records, entry n onwards
RECURSIVE groups_loop(_, _, _, _)
groups_loop(all_groups, n, user_gids, yielded) ==
    IF n >= Len(all_groups) THEN vgroups_loop(user_gids, yielded)
    ELSE LET entry == all_groups[n + 1]
             c == raw_entry_gid_call(entry)
         IN  IF c.status # "ok" THEN Raise(c.status, yielded)
             ELSE LET g == GroupEntry(entry, n)
                  IN  IF g.status # "ok" THEN Raise(g.status, yielded)
                      ELSE groups_loop(all_groups, n + 1,
                                       odict_del(user_gids, c.out),
                                       Append(yielded, g.out))

groups(d) ==
    LET us == users(d)
    IN  IF us.status # "ok" THEN Raise(us.status, <<>>)
        ELSE groups_loop(all_entries(d, "groups"), 0,
                         user_gids_of(us.out, <<>>), <<>>)

(************************* documents and stores ***************************)

MaxLoads == 3

MaxUsers == 3

MaxGroups == 1

MaxRefs == 2

Idents == {"x", "y", "z", "nope"}

G1 == [options |-> << <<"workgroup", JStr("WG")>>, <<"netbios name", JStr("OLD")>> >>]

G2 == [options |-> << <<"workgroup", JStr("WG2")>>, <<"security", JStr("user")>> >>]

G2b == [options |-> << <<"security", JStr("ads")>> >>]

G3 == [comment |-> JStr("no options")]

S1 == [options |-> << <<"path", JStr("/srv")>> >>]

S2 == [options |-> << <<"path", JStr("/home")>>, <<"read only", JStr("no")>> >>]

Alice == [name |-> JStr("alice")]

Bob == [name |-> JStr("bob"), uid |-> JInt(0), gid |-> JInt(0)]

Carol == [name |-> JStr("carol"), uid |-> JInt(7), gid |-> JInt(1001)]

Dave == [name |-> JStr("dave"), uid |-> None, gid |-> JInt(1000)]

Eve == [name |-> JStr("eve"), uid |-> JStr("abc")]

Frank == [name |-> JStr("frank"), gid |-> JStr("abc")]

UserRecs == {Alice, Bob, Carol, Dave, Eve, Frank}

Staff == [name |-> JStr("staff")]

Wheel == [name |-> JStr("wheel"), gid |-> JInt(0)]

Ops == [name |-> JStr("ops"), gid |-> JInt(1000)]

Bad == [name |-> JStr("bad"), gid |-> JStr("abc")]

GroupRecs == {Staff, Wheel, Ops, Bad}

V0 == VERSION_KEY :> JStr("v0")

DocBase ==
    V0 @@ ("configs" :>
            [x |-> [globals |-> <<"g1", "g2">>, instance_name |-> JStr("SRV"),
                    shares |-> <<"s1">>],
             y |-> [globals |-> <<"g2", "g1">>, shares |-> <<"s1", "s2">>]])
       @@ ("globals" :> [g1 |-> G1, g2 |-> G2])
       @@ ("shares" :> [s1 |-> S1])

DocOver ==
    V0 @@ ("globals" :> [g2 |-> G2b, g3 |-> G3])
       @@ ("shares" :> [s2 |-> S2])
       @@ ("users" :> [all_entries |-> <<Alice, Dave>>])

DocIds ==
    V0 @@ ("configs" :> [z |-> [globals |-> <<"g3">>, instance_name |-> JStr("")]])
       @@ ("users" :> [all_entries |-> <<Bob, Carol, Eve>>])
       @@ ("groups" :> [all_entries |-> <<Ops>>])

DocMin == V0

DocNoVer ==
    ("globals" :> [g1 |-> G2b]) @@ ("configs" :> [nope |-> [globals |-> <<>>]])

DocV1 ==
    (VERSION_KEY :> JStr("v1")) @@ ("shares" :> [s1 |-> S2, s2 |-> S2])
       @@ ("users" :> [all_entries |-> <<Frank>>])

DocNull ==
    (VERSION_KEY :> None) @@ ("groups" :> [all_entries |-> <<Bad>>])

Docs == {DocBase, DocOver, DocIds, DocMin, DocNoVer, DocV1, DocNull}

\* All lists of at most n elements of S
SeqsUpTo(S, n) == UNION {[1..k -> S] : k \in 0..n}

(******************************** actions *********************************)

Result(op, arg, idx, r) ==
    [op |-> op, arg |-> arg, idx |-> idx, status |-> r.status, out |-> r.out]

\* gconfig = GlobalConfig(): an empty store
NewGlobalConfig ==
    /\ data' = EmptyDict
    /\ history' = <<>>
    /\ last' = Result("new", "", 0, Ok(<<>>))

\* gconfig.load(fh), one iteration of the loop of read_config_files; history
\* records every document handed to load, accepted or not
Load(doc) ==
    /\ Len(history) < MaxLoads
    /\ LET r == load(data, doc)
       IN  /\ data' = r.data
           /\ last' = Result("load", "", Len(history) + 1, [status |-> r.status, out |-> <<>>])
    /\ history' = Append(history, doc)

\* gconfig.get(ident)
Get(ident) ==
    /\ last' = Result("get", ident, 0, get(data, ident))
    /\ UNCHANGED <<data, history>>

\* list(gconfig.get(ident).global_options())
GlobalOptions(ident) ==
    /\ get(data, ident).status = "ok"
    /\ last' = Result("global_options", ident, 0,
                      global_options(data, get(data, ident).out))
    /\ UNCHANGED <<data, history>>

\* list(gconfig.get(ident).shares())
Shares(ident) ==
    /\ get(data, ident).status = "ok"
    /\ last' = Result("shares", ident, 0, shares(get(data, ident).out))
    /\ UNCHANGED <<data, history>>

\* list(list(gconfig.get(ident).shares())[i].share_options())
ShareOptions(ident, i) ==
    /\ get(data, ident).status = "ok"
    /\ LET ss == shares(get(data, ident).out).out
       IN  /\ i < Len(ss)
           /\ last' = Result("share_options", ident, i, share_options(data, ss[i + 1]))
    /\ UNCHANGED <<data, history>>

\* list(iconfig.users())
Users ==
    /\ last' = Result("users", "", 0, users(data))
    /\ UNCHANGED <<data, history>>

\* The uid and gid of the user that users() yields at position i: the
\* generator is advanced i + 1 times
UserIds(i) ==
    /\ i < Len(all_entries(data, "users"))
    /\ LET r == users_loop(SubSeq(all_entries(data, "users"), 1, i + 1), 0, <<>>)
       IN  last' = Result("user_ids", "", i,
                IF r.status # "ok" THEN Raise(r.status, <<>>)
                ELSE Ok(<<UserEntry_uid(r.out[i + 1]), UserEntry_gid(r.out[i + 1])>>))
    /\ UNCHANGED <<data, history>>

\* list(iconfig.groups())
Groups ==
    /\ last' = Result("groups", "", 0, groups(data))
    /\ UNCHANGED <<data, history>>

\* GroupEntry(iconfig, entry, i).gid for the raw group record at position i
GroupGid(i) ==
    /\ i < Len(all_entries(data, "groups"))
    /\ LET g == GroupEntry(all_entries(data, "groups")[i + 1], i)
       IN  last' = Result("group_gid", "", i,
                IF g.status # "ok" THEN Raise(g.status, 0)
                ELSE GroupEntry_gid(g.out))
    /\ UNCHANGED <<data, history>>

(***************************** specifications *****************************)

Init ==
    /\ data = EmptyDict
    /\ history = <<>>
    /\ last = Result("new", "", 0, Ok(<<>>))

Next ==
    \/ NewGlobalConfig
    \/ \E doc \in Docs : Load(doc)
    \/ \E ident \in Idents : Get(ident)
    \/ \E ident \in Idents : GlobalOptions(ident)
    \/ \E ident \in Idents : Shares(ident)
    \/ \E ident \in Idents, i \in 0..1 : ShareOptions(ident, i)
    \/ Users
    \/ \E i \in 0..(MaxUsers - 1) : UserIds(i)
    \/ Groups
    \/ \E i \in 0..(MaxGroups - 1) : GroupGid(i)

Spec == Init /\ [][Next]_vars

\* Identity derivation over every store that one accepted document with a users
\* list and a groups list (or without them) gives
IdDoc(us, hasUsers, gs, hasGroups) ==
    V0 @@ (IF hasUsers THEN "users" :> [all_entries |-> us] ELSE EmptyDict)
       @@ (IF hasGroups THEN "groups" :> [all_entries |-> gs] ELSE EmptyDict)

InitId ==
    /\ \E us \in SeqsUpTo(UserRecs, MaxUsers), gs \in SeqsUpTo(GroupRecs, MaxGroups) :
       \E hasUsers \in {us # <<>>, TRUE}, hasGroups \in {gs # <<>>, TRUE} :
            /\ data = load(EmptyDict, IdDoc(us, hasUsers, gs, hasGroups)).data
            /\ history = <<IdDoc(us, hasUsers, gs, hasGroups)>>
    /\ last = Result("load", "", 1, Ok(<<>>))

NextId ==
    \/ Users
    \/ \E i \in 0..(MaxUsers - 1) : UserIds(i)
    \/ Groups
    \/ \E i \in 0..(MaxGroups - 1) : GroupGid(i)

SpecId == InitId /\ [][NextId]_vars

\* Global options over every store that one accepted document with sections A
\* and B and one instance gives
OptKeys == {"workgroup", "netbios name"}

OptValues == {JStr("v1"), JStr("v2")}

OptionDicts ==
    {<<>>}
    \cup {<< <<k, v>> >> : k \in OptKeys, v \in OptValues}
    \cup {<< <<k[1], v[1]>>, <<k[2], v[2]>> >> :
            k \in {q \in OptKeys \X OptKeys : q[1] # q[2]}, v \in OptValues \X OptValues}

Sections == {[options |-> od] : od \in OptionDicts} \cup {G3}

RefNames == {"A", "B", "C"}

InstanceNames == {None, JStr(""), JStr("SRV")}

OptDoc(a, b, refs, hasName, iname) ==
    V0 @@ ("globals" :> [A |-> a, B |-> b])
       @@ ("configs" :>
            [x |-> IF hasName THEN [globals |-> refs, instance_name |-> iname]
                   ELSE [globals |-> refs]])

InitOptions ==
    /\ \E a \in Sections, b \in Sections, refs \in SeqsUpTo(RefNames, MaxRefs) :
       \E iname \in InstanceNames : \E hasName \in {iname # None, TRUE} :
            /\ data = load(EmptyDict, OptDoc(a, b, refs, hasName, iname)).data
            /\ history = <<OptDoc(a, b, refs, hasName, iname)>>
    /\ last = Result("load", "", 1, Ok(<<>>))

NextOptions ==
    \/ \E ident \in Idents : Get(ident)
    \/ \E ident \in Idents : GlobalOptions(ident)

SpecOptions == InitOptions /\ [][NextOptions]_vars

(******************************* properties *******************************)

\* The error kinds of the specification, as the exceptions the code raises
InvalidConfig == "ValueError"

InvalidValue == "ValueError"

MissingKey == "KeyError"

\* The document carries a version marker of the accepted set {"v0"}
HasAcceptedMarker(doc) ==
    /\ VERSION_KEY \in DOMAIN doc
    /\ doc[VERSION_KEY] = JStr("v0")

MaxOf(S) == CHOOSE m \in S : \A o \in S : o <= m

\* The document that last is the load of
LoadedDoc == history[last.idx]

\* C1: load of a document that has no version marker, or whose marker is not
\* in the accepted set {"v0"}, fails with InvalidConfig, whatever the store holds.
C1_LoadRejectsBadVersion ==
    (last.op = "load" /\ ~HasAcceptedMarker(LoadedDoc)) => last.status = InvalidConfig

C1_Witness ==
    /\ last.op = "load"
    /\ last.status = InvalidConfig
    /\ last.idx >= 2
    /\ VERSION_KEY \in DOMAIN LoadedDoc
    /\ LoadedDoc[VERSION_KEY] = JStr("v1")
    /\ VERSION_KEY \notin DOMAIN history[1]
    /\ data # EmptyDict

\* The positions in history of the accepted documents that declare key K
Declaring(K) ==
    {i \in 1..Len(history) : HasAcceptedMarker(history[i]) /\ K \in DOMAIN history[i]}

TopKeys == DOMAIN data \cup UNION {DOMAIN history[i] : i \in 1..Len(history)}

\* C2: after any sequence of loads, the store's value for every top-level key K
\* is exactly the value K has in the last accepted document that declares K
\* (replaced whole, never deep-merged), and a key no accepted document declares
\* is not in the store.
C2_ShallowLastWins ==
    \A K \in TopKeys :
        IF Declaring(K) = {} THEN K \notin DOMAIN data
        ELSE K \in DOMAIN data /\ data[K] = history[MaxOf(Declaring(K))][K]

\* A later document re-declared "globals" without section g1, which is gone,
\* and "configs", which it did not declare, is kept from the earlier document
C2_Witness ==
    /\ Len(history) >= 2
    /\ Declaring("globals") = {1, 2}
    /\ Declaring("configs") = {1}
    /\ "g1" \in DOMAIN history[1]["globals"]
    /\ "g1" \notin DOMAIN history[2]["globals"]
    /\ "g1" \notin DOMAIN data["globals"]
    /\ data["configs"] = history[1]["configs"]

Accepted == SelectSeq(history, HasAcceptedMarker)

\* The top-level merge of a list of documents, key by key
MergeOf(docs) ==
    [K \in UNION {DOMAIN docs[i] : i \in 1..Len(docs)} |->
        docs[MaxOf({i \in 1..Len(docs) : K \in DOMAIN docs[i]})][K]]

\* C10: a load that fails leaves the store exactly as it was, and in every
\* reachable state the store equals the merge, in load order, of the documents
\* whose version marker is in the accepted set.
C10_RejectedLoadLeavesStore ==
    /\ [](data = MergeOf(Accepted))
    /\ [][(history' # history /\ last'.status # "ok") => data' = data]_vars

C10_Witness ==
    /\ last.op = "load"
    /\ last.status = InvalidConfig
    /\ DOMAIN LoadedDoc \ {VERSION_KEY} # {}
    /\ \E i, j \in 1..(Len(history) - 1) :
            /\ i < j
            /\ ~HasAcceptedMarker(history[i])
            /\ DOMAIN history[i] \ {VERSION_KEY} # {}
            /\ HasAcceptedMarker(history[j])

\* The instance document of the last query
LastInstance == data["configs"][last.arg]

\* The value a mapping built from a sequence of pairs holds for key k
FoldValue(pairs, k) ==
    pairs[MaxOf({i \in 1..Len(pairs) : pairs[i][1] = k})][2]

PairKeys(pairs) == {pairs[i][1] : i \in 1..Len(pairs)}

SectionOptions(gname) ==
    IF "options" \in DOMAIN data["globals"][gname]
        THEN data["globals"][gname]["options"] ELSE <<>>

\* The instance has an instance name set (a non-empty string)
NameSet(iconfig) ==
    /\ "instance_name" \in DOMAIN iconfig
    /\ iconfig["instance_name"] # None
    /\ iconfig["instance_name"] # JStr("")

\* The last query is global_options of an instance with a name set that
\* references two sections of the store
TwoSectionsAndName ==
    /\ last.op = "global_options"
    /\ Len(LastInstance["globals"]) = 2
    /\ \A i \in 1..2 : LastInstance["globals"][i] \in DOMAIN data["globals"]
    /\ NameSet(LastInstance)

\* C4: for an instance that references sections [A, B] in that order and has an
\* instance name set, folding what global_options yields into a mapping gives
\* B's value for every key present in both, and the instance name for the key
\* "netbios name" whatever A or B set for it.
C4_FoldedGlobalOptions ==
    TwoSectionsAndName =>
        /\ last.status = "ok"
        /\ FoldValue(last.out, "netbios name") = LastInstance["instance_name"]
        /\ \A k \in (PairKeys(SectionOptions(LastInstance["globals"][1]))
                     \cap PairKeys(SectionOptions(LastInstance["globals"][2])))
                    \ {"netbios name"} :
                FoldValue(last.out, k)
                    = FoldValue(SectionOptions(LastInstance["globals"][2]), k)

\* A and B both set "workgroup" (to different values) and B sets "netbios name"
C4_Witness ==
    /\ TwoSectionsAndName
    /\ LastInstance["globals"] = <<"A", "B">>
    /\ "workgroup" \in PairKeys(SectionOptions("A"))
    /\ "workgroup" \in PairKeys(SectionOptions("B"))
    /\ FoldValue(SectionOptions("A"), "workgroup")
        # FoldValue(SectionOptions("B"), "workgroup")
    /\ "netbios name" \in PairKeys(SectionOptions("B"))
    /\ FoldValue(last.out, "workgroup") = FoldValue(SectionOptions("B"), "workgroup")
    /\ FoldValue(last.out, "netbios name") = JStr("SRV")

HasInstance(ident) ==
    "configs" \in DOMAIN data /\ ident \in DOMAIN data["configs"]

HasSection(gname) ==
    "globals" \in DOMAIN data /\ gname \in DOMAIN data["globals"]

HasShare(sname) ==
    "shares" \in DOMAIN data /\ sname \in DOMAIN data["shares"]

\* C8: a query fails with MissingKey when the instance identifier is not in the
\* store's configs, when global_options reaches a referenced section name that
\* is not in the store's globals, and when share_options is asked of a listed
\* share that is not in the store's shares; shares() itself lists every name.
C8_MissingReferenceRaises ==
    /\ (last.op = "get" /\ ~HasInstance(last.arg)) => last.status = MissingKey
    /\ (last.op = "global_options"
            /\ \E i \in 1..Len(LastInstance["globals"]) :
                    ~HasSection(LastInstance["globals"][i]))
        => last.status = MissingKey
    /\ last.op = "shares" =>
            /\ last.status = "ok"
            /\ Len(last.out) = Len(dict_get(LastInstance, "shares", <<>>))
    /\ (last.op = "share_options"
            /\ ~HasShare(LastInstance["shares"][last.idx + 1]))
        => last.status = MissingKey

\* The second share that instance y lists is not in the store
C8_Witness ==
    /\ last.op = "share_options"
    /\ last.idx = 1
    /\ HasShare(LastInstance["shares"][1])
    /\ ~HasShare(LastInstance["shares"][2])
    /\ last.status = MissingKey

RawUsers == all_entries(data, "users")

RawGroups == all_entries(data, "groups")

\* The raw record's field is present and not an integer
MalformedField(rec, f) ==
    f \in DOMAIN rec /\ rec[f] # None /\ rec[f].type # "int"

Malformed(rec) == MalformedField(rec, "uid") \/ MalformedField(rec, "gid")

\* The effective-id rule: the explicit id when it is an integer other than 0,
\* else base + position
EffId(rec, f, base, i) ==
    IF f \in DOMAIN rec /\ rec[f].type = "int" /\ rec[f].n # 0
        THEN rec[f].n
        ELSE base + i

\* C3: the user at zero-based position i has effective uid U when its record
\* carries an explicit integer uid U # 0, and uid_base + i when it has no
\* explicit uid or an explicit uid of 0; the same rule gives its gid from its
\* gid field and gid_base.
C3_EffectiveUserIds ==
    last.op = "user_ids" =>
        /\ (\A j \in 1..(last.idx + 1) : ~Malformed(RawUsers[j])) => last.status = "ok"
        /\ last.status = "ok" =>
            last.out = <<EffId(RawUsers[last.idx + 1], "uid", uid_base, last.idx),
                         EffId(RawUsers[last.idx + 1], "gid", gid_base, last.idx)>>

\* The user at position 2 has an explicit uid and gid of 0 and gets 1002, 1002
C3_Witness ==
    /\ last.op = "user_ids"
    /\ last.idx = 2
    /\ RawUsers[3] = Bob
    /\ RawUsers[1] = Carol
    /\ last.status = "ok"
    /\ last.out = <<1002, 1002>>

\* The position of the first malformed record of a list, or 0
FirstMalformed(recs) ==
    IF \E j \in 1..Len(recs) : Malformed(recs[j])
        THEN CHOOSE j \in 1..Len(recs) :
                Malformed(recs[j]) /\ \A o \in 1..(j - 1) : ~Malformed(recs[o])
        ELSE 0

\* C7: building a user from a raw record whose uid or gid is present and not
\* an integer fails with InvalidValue when the record is constructed: users()
\* stops there having yielded only the records before it, reading the ids of
\* that user fails the same way, and no yielded user holds a malformed id.
C7_MalformedIdRaisesAtConstruction ==
    /\ last.op = "users" =>
        /\ IF FirstMalformed(RawUsers) # 0
            THEN /\ last.status = InvalidValue
                 /\ Len(last.out) = FirstMalformed(RawUsers) - 1
            ELSE /\ last.status = "ok"
                 /\ Len(last.out) = Len(RawUsers)
        /\ \A j \in 1..Len(last.out) :
            /\ last.out[j]["_uid"].type \in {"NoneType", "int"}
            /\ last.out[j]["_gid"].type \in {"NoneType", "int"}
    /\ (last.op = "user_ids" /\ \E j \in 1..(last.idx + 1) : Malformed(RawUsers[j]))
        => last.status = InvalidValue

C7_Witness ==
    /\ last.op = "users"
    /\ Len(RawUsers) = 3
    /\ RawUsers[2] = Eve
    /\ last.status = InvalidValue
    /\ Len(last.out) = 1

\* The effective gids of the users, by the effective-id rule
UserGid(j) == EffId(RawUsers[j], "gid", gid_base, j - 1)

\* The positions at which a gid occurs for the first time in the users list
FirstOccurrences == {j \in 1..Len(RawUsers) : \A o \in 1..(j - 1) : UserGid(o) # UserGid(j)}

\* The k-th smallest element of a set of numbers
RECURSIVE Kth(_, _)
Kth(S, k) ==
    LET m == CHOOSE x \in S : \A y \in S : x <= y
    IN  IF k = 1 THEN m ELSE Kth(S \ {m}, k - 1)

LastWithGid(g) == MaxOf({j \in 1..Len(RawUsers) : UserGid(j) = g})

\* C6: when the groups collection is empty or absent (and every user record is
\* well formed), groups() yields exactly one virtual group per distinct
\* effective gid among the users, in the order in which the gids first occur;
\* its gid is that gid and its name the username of the last user having it.
C6_VirtualGroupsOnly ==
    (last.op = "groups" /\ RawGroups = <<>> /\ FirstMalformed(RawUsers) = 0) =>
        /\ last.status = "ok"
        /\ Len(last.out) = Cardinality(FirstOccurrences)
        /\ \A k \in 1..Len(last.out) :
            LET g == UserGid(Kth(FirstOccurrences, k))
            IN  /\ GroupEntry_gid(last.out[k]) = Ok(g)
                /\ last.out[k]["groupname"] = RawUsers[LastWithGid(g)]["name"]

\* Users with gids 1000, 1001, 1000: two groups, the first named after the
\* third user
C6_Witness ==
    /\ last.op = "groups"
    /\ "groups" \notin DOMAIN data
    /\ RawUsers = <<Alice, Carol, Dave>>
    /\ last.status = "ok"
    /\ Len(last.out) = 2
    /\ last.out[1]["groupname"] = JStr("dave")
    /\ last.out[2]["groupname"] = JStr("carol")

\* The raw group records that claim gid g, by the effective-id rule
Claimed(g) ==
    \E n \in 1..Len(RawGroups) : EffId(RawGroups[n], "gid", gid_base, n - 1) = g

Unclaimed == {j \in FirstOccurrences : ~Claimed(UserGid(j))}

\* C5: groups() yields one effective group per raw group record in source
\* order, followed by a virtual group for a user if and only if no raw group
\* record has an effective gid equal to that user's; with well-formed records
\* it completes.
C5_GroupsThenUnclaimedVirtualGroups ==
    (/\ last.op = "groups"
     /\ FirstMalformed(RawUsers) = 0
     /\ FirstMalformed(RawGroups) = 0) =>
        /\ last.status = "ok"
        /\ Len(last.out) = Len(RawGroups) + Cardinality(Unclaimed)
        /\ \A n \in 1..Len(RawGroups) :
                last.out[n]["groupname"] = RawGroups[n]["name"]
        /\ \A k \in 1..Cardinality(Unclaimed) :
                last.out[Len(RawGroups) + k]["groupname"]
                    = RawUsers[LastWithGid(UserGid(Kth(Unclaimed, k)))]["name"]

\* C9: an effective group built from the raw group record at position i has
\* gid gid_base + i when the record has no explicit gid or a gid of 0, and G
\* when it has an explicit gid G # 0; reading the gid never fails.
C9_EffectiveGroupGid ==
    (last.op = "group_gid" /\ ~Malformed(RawGroups[last.idx + 1])) =>
        /\ last.status = "ok"
        /\ last.out = EffId(RawGroups[last.idx + 1], "gid", gid_base, last.idx)

====
